---- MODULE Spec2Model ----
(***************************************************************************)
(* Model of the ETL pipeline of the repository:                            *)
(*   src/TransformETL/__init__.py        process_and_harmonize_data, main  *)
(*   src/NotificationFunction/__init__.py validate_harmonized_schema,      *)
(*                                        send_teams_notification, main    *)
(*                                                                         *)
(* Conventions of the model.                                               *)
(*  - Text is TLA+ strings; Python's str operations ("in", endswith,       *)
(*    split, f-strings, strftime, isoformat) are computed on them.         *)
(*  - Decimal amounts (unit_price, revenue) are integers counting          *)
(*    thousandths ("mills"), with exact decimal arithmetic in place of     *)
(*    binary floating point.                                               *)
(*  - A pandas / datetime instant is the tuple <<Y, M, D, h, m, s>>.       *)
(***************************************************************************)
EXTENDS Integers, Sequences, FiniteSets, TLC

VARIABLES
    \* ---- TransformETL: one call of process_and_harmonize_data
    csv_data,            \* the parsed rows of the csv text (the DataFrame df)
    run_ts,              \* the run timestamp, integer milliseconds
    h_status,            \* "ready" | "returned" | "raised"
    output_blobs,        \* the list the call returned
    harmonized,          \* the harmonized_data dict of each loop iteration
    prev_run,            \* the by-timestamp names returned by the call before
    \* ---- both functions: application setting
    STORAGE_ACCOUNT_URL, \* "" when the setting is absent
    \* ---- TransformETL: main
    req_body,            \* the HTTP request body
    raw_blob,            \* the blob of the raw container the request names
    etl_pc,              \* position of main
    main_frame,          \* main's local names and their values
    uploaded,            \* paths main uploaded to the processed container
    response,            \* the HttpResponse main returned
    \* ---- NotificationFunction: one call of validate_harmonized_schema
    candidate,           \* the decoded JSON value passed as data
    verdict,             \* "pending" | "True" | "False" | "TypeError" | "AttributeError"
    \* ---- NotificationFunction: main
    url,                 \* result.get('url') of the event
    processed_blob,      \* what the processed container holds under blob_name
    nf_pc,               \* position of main
    is_schema_valid,
    error_detail,
    device_id,
    revenue,
    downloaded,          \* blob_name main asked the store for, "" if none
    validated,           \* what validate_harmonized_schema returned to main
    teams_payload        \* the payload handed to send_teams_notification

hvars == <<csv_data, run_ts, h_status, output_blobs, harmonized, prev_run>>
mvars == <<req_body, raw_blob, etl_pc, main_frame, uploaded, response>>
vvars == <<candidate, verdict>>
nvars == <<url, processed_blob, nf_pc, is_schema_valid, error_detail, device_id,
           revenue, downloaded, validated, teams_payload>>
vars == <<hvars, mvars, vvars, nvars, STORAGE_ACCOUNT_URL>>

(***************************************************************************)
(* Bounds of the model.                                                    *)
(***************************************************************************)
\* longest csv input, in data rows
MaxRows == 3
\* largest number a summary field of a validation candidate holds
MaxNum == 1

(***************************************************************************)
(* Python str operations.                                                  *)
(***************************************************************************)
\* s.startswith(p)
StartsWith(s, p) == Len(s) >= Len(p) /\ SubSeq(s, 1, Len(p)) = p

\* s.endswith(p)
EndsWith(s, p) == Len(s) >= Len(p) /\ SubSeq(s, Len(s) - Len(p) + 1, Len(s)) = p

\* p in s   (substring)
Contains(s, p) ==
    \E i \in 1..(Len(s) - Len(p) + 1) : SubSeq(s, i, i + Len(p) - 1) = p

\* s.split(sep)[-1] : the text after the last occurrence of sep, s itself if none
SplitLast(s, sep) ==
    LET hits == {i \in 1..(Len(s) - Len(sep) + 1) : SubSeq(s, i, i + Len(sep) - 1) = sep}
    IN  IF hits = {} THEN s
        ELSE LET last == CHOOSE i \in hits : \A j \in hits : j <= i
             IN  SubSeq(s, last + Len(sep), Len(s))

\* value of one decimal digit character
DigitVal(c) ==
    CASE c = "0" -> 0 [] c = "1" -> 1 [] c = "2" -> 2 [] c = "3" -> 3 [] c = "4" -> 4
      [] c = "5" -> 5 [] c = "6" -> 6 [] c = "7" -> 7 [] c = "8" -> 8 [] c = "9" -> 9

\* int(s) for a string of decimal digits
RECURSIVE ParseInt(_)
ParseInt(s) ==
    IF Len(s) = 0 THEN 0
    ELSE 10 * ParseInt(SubSeq(s, 1, Len(s) - 1)) + DigitVal(SubSeq(s, Len(s), Len(s)))

\* "%02d" % n
Pad2(n) == IF n < 10 THEN "0" \o ToString(n) ELSE ToString(n)

\* "%03d" % n
Pad3(n) == IF n < 100 THEN "0" \o Pad2(n) ELSE ToString(n)

\* "%04d" % n
Pad4(n) == IF n < 1000 THEN "0" \o Pad3(n) ELSE ToString(n)

(***************************************************************************)
(* Instants.                                                               *)
(***************************************************************************)
\* pd.to_datetime on one ISO-8601 UTC text "YYYY-MM-DDThh:mm:ss" + ("Z" | "+00:00")
ParseTimestamp(text) ==
    << ParseInt(SubSeq(text, 1, 4)), ParseInt(SubSeq(text, 6, 7)),
       ParseInt(SubSeq(text, 9, 10)), ParseInt(SubSeq(text, 12, 13)),
       ParseInt(SubSeq(text, 15, 16)), ParseInt(SubSeq(text, 18, 19)) >>

\* a < b on instants
RECURSIVE TsLess(_, _)
TsLess(a, b) ==
    /\ Len(a) > 0
    /\ \/ Head(a) < Head(b)
       \/ Head(a) = Head(b) /\ TsLess(Tail(a), Tail(b))

\* pandas Timestamp.isoformat() of a UTC-aware instant
TsIsoFormat(t) ==
    Pad4(t[1]) \o "-" \o Pad2(t[2]) \o "-" \o Pad2(t[3]) \o "T" \o
    Pad2(t[4]) \o ":" \o Pad2(t[5]) \o ":" \o Pad2(t[6]) \o "+00:00"

\* Series.min() / Series.max() of the timestamp column; NaT on an empty column
NaT == <<>>
SeriesMin(col) ==
    IF Len(col) = 0 THEN NaT
    ELSE col[CHOOSE i \in 1..Len(col) : \A j \in 1..Len(col) : ~TsLess(col[j], col[i])]
SeriesMax(col) ==
    IF Len(col) = 0 THEN NaT
    ELSE col[CHOOSE i \in 1..Len(col) : \A j \in 1..Len(col) : ~TsLess(col[i], col[j])]

\* .isoformat() of an aggregated Timestamp; NaT.isoformat() is the text "NaT"
AggIsoFormat(t) == IF t = NaT THEN "NaT" ELSE TsIsoFormat(t)

\* datetime.fromtimestamp(run_ts / 1000) on a host whose zone is UTC, for the
\* instants of January 1970 (run_ts below 31 days of milliseconds):
\* <<Y, M, D, h, m, s, microsecond>>
FromTimestamp(ms) ==
    LET secs == ms \div 1000
        sod  == secs % 86400
    IN  << 1970, 1, 1 + (secs \div 86400), sod \div 3600, (sod % 3600) \div 60,
           sod % 60, (ms % 1000) * 1000 >>

\* datetime.strftime('%Y%m%d%H%M%S')
Strftime(d) ==
    Pad4(d[1]) \o Pad2(d[2]) \o Pad2(d[3]) \o Pad2(d[4]) \o Pad2(d[5]) \o Pad2(d[6])

\* datetime.isoformat() of a naive datetime: the fraction only when non-zero
DatetimeIsoFormat(d) ==
    Pad4(d[1]) \o "-" \o Pad2(d[2]) \o "-" \o Pad2(d[3]) \o "T" \o
    Pad2(d[4]) \o ":" \o Pad2(d[5]) \o ":" \o Pad2(d[6]) \o
    (IF d[7] = 0 THEN "" ELSE "." \o Pad3(d[7] \div 1000) \o "000")

(***************************************************************************)
(* TransformETL: the csv input.                                            *)
(***************************************************************************)
\* the three data rows of TEST_CSV_DATA, and a fourth row of another day whose
\* timestamp is spelled with "Z" and whose price has three decimals
TestRow1 ==
    [device_id |-> "S-101", timestamp |-> "2025-09-15T08:00:00+00:00",
     item_id |-> "SKU-S-03", qty |-> 1, unit_price |-> 19990, store |-> "CLUJ-D"]
TestRow2 ==
    [device_id |-> "S-101", timestamp |-> "2025-09-15T08:15:00+00:00",
     item_id |-> "SKU-ACC-05", qty |-> 2, unit_price |-> 9990, store |-> "CLUJ-D"]
TestRow3 ==
    [device_id |-> "S-102", timestamp |-> "2025-09-15T08:45:00+00:00",
     item_id |-> "SKU-XL-01", qty |-> 2, unit_price |-> 129990, store |-> "CLUJ-D"]
ExtraRow ==
    [device_id |-> "S-102", timestamp |-> "2025-09-14T23:30:00Z",
     item_id |-> "SKU-ACC-05", qty |-> 1, unit_price |-> 125, store |-> "CLUJ-D"]

TEST_CSV_DATA == <<TestRow1, TestRow2, TestRow3>>

RowPool == {TestRow1, TestRow2, TestRow3, ExtraRow}

\* every csv text with the header row and at most MaxRows data rows
RECURSIVE SeqsUpTo(_, _)
SeqsUpTo(S, n) ==
    IF n = 0 THEN {<<>>}
    ELSE LET shorter == SeqsUpTo(S, n - 1)
         IN  shorter \cup {Append(q, x) : q \in {r \in shorter : Len(r) = n - 1}, x \in S}

CsvInputs == SeqsUpTo(RowPool, MaxRows)

\* run timestamps, in milliseconds: two of the same second, one a minute later,
\* one a day, an hour, a minute, a second and a millisecond after the epoch
RunTimestamps == {1000, 1500, 61000, 90061001}

\* the device ids of the pool in ascending order (groupby sorts its keys)
DeviceOrder == <<"S-101", "S-102">>

(***************************************************************************)
(* TransformETL: process_and_harmonize_data.                               *)
(***************************************************************************)
\* df after pd.read_csv, pd.to_datetime on the timestamp column and the
\* revenue column qty * unit_price
DataFrame(csv) ==
    [i \in 1..Len(csv) |->
        [device_id |-> csv[i].device_id,
         timestamp |-> ParseTimestamp(csv[i].timestamp),
         item_id |-> csv[i].item_id,
         qty |-> csv[i].qty,
         unit_price |-> csv[i].unit_price,
         revenue |-> csv[i].qty * csv[i].unit_price,
         store |-> csv[i].store]]

\* the timestamp column of df
TimestampColumn(df) == [i \in 1..Len(df) |-> df[i].timestamp]

\* a plausible slip: the window taken from the first and the last row
TimeWindowFirstLast(df) ==
    IF Len(df) = 0 THEN "NaT/NaT"
    ELSE TsIsoFormat(df[1].timestamp) \o "/" \o TsIsoFormat(df[Len(df)].timestamp)

\* time_window = f"{min_time}/{max_time}"
TimeWindow(df) ==
    AggIsoFormat(SeriesMin(TimestampColumn(df))) \o "/" \o
    AggIsoFormat(SeriesMax(TimestampColumn(df)))

\* the keys df.groupby('device_id') iterates over: distinct, ascending
GroupKeys(df) ==
    SelectSeq(DeviceOrder, LAMBDA d : \E i \in 1..Len(df) : df[i].device_id = d)

\* a plausible slip: the group in reverse row order
RECURSIVE Reverse(_)
Reverse(s) == IF s = <<>> THEN <<>> ELSE Append(Reverse(Tail(s)), Head(s))
GroupReversed(df, key) == Reverse(SelectSeq(df, LAMBDA r : r.device_id = key))

\* group_df: the rows of df of one device, in df's order
Group(df, key) == SelectSeq(df, LAMBDA r : r.device_id = key)

\* Series.sum() of the qty and of the revenue column
RECURSIVE SumQty(_)
SumQty(rows) == IF rows = <<>> THEN 0 ELSE Head(rows).qty + SumQty(Tail(rows))
RECURSIVE SumRevenue(_)
SumRevenue(rows) == IF rows = <<>> THEN 0 ELSE Head(rows).revenue + SumRevenue(Tail(rows))

\* .round(2): to a whole number of hundredths, ties to the even hundredth
Round2(mills) ==
    LET r    == mills % 10
        base == mills - r
    IN  IF r < 5 THEN base
        ELSE IF r > 5 THEN base + 10
        ELSE IF (base \div 10) % 2 = 0 THEN base ELSE base + 10

\* records: the six selected columns, each timestamp through isoformat()
Records(group_df) ==
    [i \in 1..Len(group_df) |->
        [timestamp |-> TsIsoFormat(group_df[i].timestamp),
         item_id |-> group_df[i].item_id,
         qty |-> group_df[i].qty,
         unit_price |-> group_df[i].unit_price,
         revenue |-> group_df[i].revenue,
         store |-> group_df[i].store]]

\* harmonized_data of one device
HarmonizedData(key, group_df, time_window, ts) ==
    [device_id |-> key,
     generation_timestamp |-> DatetimeIsoFormat(FromTimestamp(ts)),
     time_window |-> time_window,
     summary |->
        [total_revenue |-> Round2(SumRevenue(group_df)),
         total_items_sold |-> SumQty(group_df),
         record_count |-> Len(Records(group_df))],
     records |-> Records(group_df)]

(***************************************************************************)
(* TransformETL: json.dumps(harmonized_data, indent=4).                    *)
(***************************************************************************)
\* repr of a float holding a decimal of at most three places: "19.99", "20.0"
FloatRepr(mills) ==
    LET whole == mills \div 1000
        frac  == mills % 1000
    IN  ToString(whole) \o "." \o
        (IF frac % 100 = 0 THEN ToString(frac \div 100)
         ELSE IF frac % 10 = 0 THEN Pad2(frac \div 10)
         ELSE Pad3(frac))

\* a JSON string literal (the texts of the model need no escaping)
JsonStr(s) == "\"" \o s \o "\""

\* one element of "records", at nesting depth 2
JsonRecord(r) ==
    "        {\n" \o
    "            \"timestamp\": " \o JsonStr(r.timestamp) \o ",\n" \o
    "            \"item_id\": " \o JsonStr(r.item_id) \o ",\n" \o
    "            \"qty\": " \o ToString(r.qty) \o ",\n" \o
    "            \"unit_price\": " \o FloatRepr(r.unit_price) \o ",\n" \o
    "            \"revenue\": " \o FloatRepr(r.revenue) \o ",\n" \o
    "            \"store\": " \o JsonStr(r.store) \o "\n" \o
    "        }"

RECURSIVE JsonRecords(_)
JsonRecords(rs) ==
    IF rs = <<>> THEN ""
    ELSE JsonRecord(Head(rs)) \o (IF Len(rs) = 1 THEN "\n" ELSE ",\n") \o JsonRecords(Tail(rs))

\* output_content
JsonDumps(h) ==
    "{\n" \o
    "    \"device_id\": " \o JsonStr(h.device_id) \o ",\n" \o
    "    \"generation_timestamp\": " \o JsonStr(h.generation_timestamp) \o ",\n" \o
    "    \"time_window\": " \o JsonStr(h.time_window) \o ",\n" \o
    "    \"summary\": {\n" \o
    "        \"total_revenue\": " \o FloatRepr(h.summary.total_revenue) \o ",\n" \o
    "        \"total_items_sold\": " \o ToString(h.summary.total_items_sold) \o ",\n" \o
    "        \"record_count\": " \o ToString(h.summary.record_count) \o "\n" \o
    "    },\n" \o
    "    \"records\": " \o
    (IF h.records = <<>> THEN "[]" ELSE "[\n" \o JsonRecords(h.records) \o "    ]") \o "\n" \o
    "}"

(***************************************************************************)
(* TransformETL: the artifact names and the loop over the groups.          *)
(***************************************************************************)
\* timestamp_folder
TimestampFolder(ts) == Strftime(FromTimestamp(ts))

\* latest_path
LatestPath(key) == "latest/device-" \o key \o ".json"

\* history_path
HistoryPath(ts, key) ==
    "by-timestamp/" \o TimestampFolder(ts) \o "/device-" \o key \o ".json"

\* a plausible slip: the history copy appended under the latest name
DeviceBlobsBothLatest(key, ts, output_content) ==
    << [path |-> LatestPath(key), content |-> output_content],
       [path |-> LatestPath(key), content |-> output_content] >>

\* the two appends of one iteration
DeviceBlobs(key, ts, output_content) ==
    << [path |-> LatestPath(key), content |-> output_content],
       [path |-> HistoryPath(ts, key), content |-> output_content] >>

\* the for loop over grouped; acc is the state the iterations build. The test
\* of df.empty stands inside the loop body, after harmonized_data is built.
RECURSIVE GroupLoop(_, _, _, _, _)
GroupLoop(keys, df, time_window, ts, acc) ==
    IF keys = <<>> THEN acc
    ELSE LET key             == Head(keys)
             harmonized_data == HarmonizedData(key, Group(df, key), time_window, ts)
         IN  IF Len(df) = 0
             THEN [status |-> "raised", output_blobs |-> <<>>,
                   harmonized |-> acc.harmonized]
             ELSE GroupLoop(Tail(keys), df, time_window, ts,
                      [status |-> "returned",
                       output_blobs |-> acc.output_blobs \o
                           DeviceBlobs(key, ts, JsonDumps(harmonized_data)),
                       harmonized |-> Append(acc.harmonized, harmonized_data)])

\* the module-level process_and_harmonize_data(csv_data, run_ts)
process_and_harmonize_data(csv, ts) ==
    LET df          == DataFrame(csv)
        time_window == TimeWindow(df)
    IN  GroupLoop(GroupKeys(df), df, time_window, ts,
                  [status |-> "returned", output_blobs |-> <<>>, harmonized |-> <<>>])

\* the by-timestamp artifacts of a returned list, each with its run timestamp
HistoryOf(ts, blobs) ==
    {[run_ts |-> ts, path |-> blobs[i].path] :
        i \in {j \in 1..Len(blobs) : StartsWith(blobs[j].path, "by-timestamp/")}}

(***************************************************************************)
(* The idle values of each part, for the specifications that leave it out. *)
(***************************************************************************)
HarmonizerIdle ==
    /\ csv_data = <<>> /\ run_ts = 0 /\ h_status = "idle"
    /\ output_blobs = <<>> /\ harmonized = <<>> /\ prev_run = {}

(***************************************************************************)
(* Calls of process_and_harmonize_data.                                    *)
(***************************************************************************)
HarmonizerInit ==
    /\ csv_data \in CsvInputs
    /\ run_ts \in RunTimestamps
    /\ h_status = "ready"
    /\ output_blobs = <<>>
    /\ harmonized = <<>>
    /\ prev_run = {}

\* one call, from entry to return or raise
Harmonize ==
    /\ h_status = "ready"
    /\ LET r == process_and_harmonize_data(csv_data, run_ts)
       IN  /\ h_status' = r.status
           /\ output_blobs' = r.output_blobs
           /\ harmonized' = r.harmonized
    /\ UNCHANGED <<csv_data, run_ts, prev_run>>

\* the next run over the same input, with another run timestamp
Rerun ==
    /\ h_status = "returned"
    /\ prev_run' = HistoryOf(run_ts, output_blobs)
    /\ run_ts' \in RunTimestamps
    /\ h_status' = "ready"
    /\ output_blobs' = <<>>
    /\ harmonized' = <<>>
    /\ UNCHANGED csv_data

(***************************************************************************)
(* TransformETL: main.                                                     *)
(***************************************************************************)
\* the names of the module's global scope
ModuleGlobals ==
    {"logging", "json", "os", "time", "func", "datetime", "StringIO",
     "DefaultAzureCredential", "BlobServiceClient", "pd", "STORAGE_ACCOUNT_URL",
     "RAW_CONTAINER", "PROCESSED_CONTAINER", "TEST_CSV_DATA",
     "process_and_harmonize_data", "main"}

StorageSettings == {"", "https://cc2025.blob.core.windows.net"}

\* request bodies: not JSON, JSON without fileName, the test run, a blob name
RequestBodies ==
    {[json |-> FALSE, fileName |-> ""], [json |-> TRUE, fileName |-> ""],
     [json |-> TRUE, fileName |-> "TEST_RUN"], [json |-> TRUE, fileName |-> "sales.csv"]}

\* the raw container either lacks the blob or holds a csv text
RawBlobs ==
    {[exists |-> FALSE, rows |-> <<>>]} \cup {[exists |-> TRUE, rows |-> c] : c \in CsvInputs}

NoResponse == [status_code |-> 0, body |-> ""]
EmptyFrame == [n \in {} |-> ""]

\* frame with name bound to value
Bind(frame, name, value) ==
    [n \in DOMAIN frame \cup {name} |-> IF n = name THEN value ELSE frame[n]]

RECURSIVE BlobPaths(_)
BlobPaths(blobs) ==
    IF blobs = <<>> THEN {} ELSE {Head(blobs).path} \cup BlobPaths(Tail(blobs))

MainIdle ==
    /\ req_body = [json |-> FALSE, fileName |-> ""]
    /\ raw_blob = [exists |-> FALSE, rows |-> <<>>]
    /\ etl_pc = "idle" /\ main_frame = EmptyFrame /\ uploaded = {}
    /\ response = NoResponse

MainInit ==
    /\ req_body \in RequestBodies
    /\ raw_blob \in RawBlobs
    /\ etl_pc = "start"
    /\ main_frame = EmptyFrame
    /\ uploaded = {}
    /\ response = NoResponse

\* lines 94-99: the setting is read first
MainCheckConfig ==
    /\ etl_pc = "start"
    /\ IF STORAGE_ACCOUNT_URL = ""
       THEN /\ response' = [status_code |-> 500,
                 body |-> "Processing failed: Storage Account URL setting is missing."]
            /\ etl_pc' = "done"
       ELSE /\ response' = response
            /\ etl_pc' = "input"
    /\ UNCHANGED <<req_body, raw_blob, main_frame, uploaded>>

\* lines 102-136: the request, the client, and csv_data from TEST_CSV_DATA or
\* from the raw container
MainInputSetup ==
    /\ etl_pc = "input"
    /\ IF ~req_body.json
       THEN \* req.get_json() raises ValueError, caught at line 131
            /\ response' = [status_code |-> 500,
                 body |-> "Processing failed during input setup or storage access"]
            /\ etl_pc' = "done"
            /\ main_frame' = main_frame
       ELSE IF req_body.fileName = ""
       THEN /\ response' = [status_code |-> 400,
                 body |-> "Please pass a 'fileName' in the request body"]
            /\ etl_pc' = "done"
            /\ main_frame' = Bind(Bind(main_frame, "req_body", req_body),
                                  "input_filename", req_body.fileName)
       ELSE LET named == Bind(Bind(Bind(Bind(main_frame, "req_body", req_body),
                                  "input_filename", req_body.fileName),
                                  "credential", "DefaultAzureCredential"),
                                  "blob_service_client", STORAGE_ACCOUNT_URL)
            IN  IF req_body.fileName = "TEST_RUN"
                THEN /\ main_frame' = Bind(named, "csv_data", TEST_CSV_DATA)
                     /\ etl_pc' = "write"
                     /\ response' = response
                ELSE IF raw_blob.exists
                THEN /\ main_frame' = Bind(named, "csv_data", raw_blob.rows)
                     /\ etl_pc' = "write"
                     /\ response' = response
                ELSE \* download_blob raises, caught at line 124
                     /\ main_frame' = named
                     /\ etl_pc' = "done"
                     /\ response' = [status_code |-> 500,
                          body |-> "Processing failed during input blob download"]
    /\ UNCHANGED <<req_body, raw_blob, uploaded>>

\* lines 139-206: the def statement binds the nested function and calls
\* nothing; the for statement then reads the name output_blobs, and a name
\* bound neither in main's frame nor in the module raises NameError, which
\* the except of line 194 turns into the 500 response
MainWriteOutputs ==
    /\ etl_pc = "write"
    /\ LET frame == Bind(Bind(main_frame, "process_and_harmonize_data", "function"),
                         "container_client", "processed")
       IN  /\ main_frame' = frame
           /\ IF "output_blobs" \in (DOMAIN frame \cup ModuleGlobals)
              THEN /\ uploaded' = BlobPaths(frame["output_blobs"])
                   /\ response' = [status_code |-> 200,
                        body |-> "Processed " \o ToString(Len(frame["output_blobs"]))
                                 \o " output blobs successfully."]
              ELSE /\ uploaded' = uploaded
                   /\ response' = [status_code |-> 500,
                        body |-> "Processing failed during output writing to Storage: "
                                 \o "name 'output_blobs' is not defined"]
    /\ etl_pc' = "done"
    /\ UNCHANGED <<req_body, raw_blob>>

(***************************************************************************)
(* NotificationFunction: decoded JSON values.                              *)
(*   a scalar is [kind, num]; a summary is [kind, has, record_count,       *)
(*   total_revenue], where has holds the keys of a dict, the elements of a *)
(*   list, or the key names a string contains as substrings; a candidate   *)
(*   is [kind, keys, device_id, summary].                                  *)
(***************************************************************************)
RequiredKeys == {"device_id", "generation_timestamp", "time_window", "summary", "records"}
SummaryKeys == {"total_revenue", "record_count"}

Absent == [kind |-> "absent", num |-> 0]

\* numbers from -1 up, a string, null and true
Scalars ==
    {[kind |-> "number", num |-> n] : n \in (-1)..MaxNum} \cup
    {[kind |-> "string", num |-> 0], [kind |-> "null", num |-> 0],
     [kind |-> "bool", num |-> 1]}

AbsentSummary ==
    [kind |-> "absent", has |-> {}, record_count |-> Absent, total_revenue |-> Absent]

SummaryValues ==
    UNION {
        {[kind |-> "dict", has |-> ks, record_count |-> rc, total_revenue |-> tr] :
            rc \in (IF "record_count" \in ks THEN Scalars ELSE {Absent}),
            tr \in (IF "total_revenue" \in ks THEN Scalars ELSE {Absent})} :
        ks \in SUBSET SummaryKeys } \cup
    {[kind |-> k, has |-> ks, record_count |-> Absent, total_revenue |-> Absent] :
        k \in {"list", "string"}, ks \in {{}, SummaryKeys}} \cup
    {[kind |-> k, has |-> {}, record_count |-> Absent, total_revenue |-> Absent] :
        k \in {"null", "number"}}

\* all the required keys, all but one of them, or none
KeySets == {RequiredKeys, {}} \cup {RequiredKeys \ {k} : k \in RequiredKeys}

Candidates ==
    UNION {
        {[kind |-> "dict", keys |-> ks,
          device_id |-> (IF "device_id" \in ks THEN "S-101" ELSE ""),
          summary |-> sm] :
            sm \in (IF "summary" \in ks THEN SummaryValues ELSE {AbsentSummary})} :
        ks \in KeySets } \cup
    {[kind |-> k, keys |-> {}, device_id |-> "", summary |-> AbsentSummary] :
        k \in {"list", "null", "string", "number", "bool"}}

(***************************************************************************)
(* NotificationFunction: validate_harmonized_schema.                       *)
(*   The result is "True" or "False", or the exception the call raises.    *)
(***************************************************************************)
\* v <= 0 : "yes", "no", or "TypeError" when v is no number (True counts as 1)
LeqZero(v) ==
    IF v.kind \in {"number", "bool"} THEN (IF v.num <= 0 THEN "yes" ELSE "no")
    ELSE "TypeError"

\* key in summary / key not in summary (line 25)
SummaryKeysCheck(summary) ==
    IF summary.kind \in {"null", "number", "bool"} THEN "TypeError"
    ELSE IF "total_revenue" \notin summary.has \/ "record_count" \notin summary.has
    THEN "False"
    ELSE "pass"

\* a plausible slip: a zero count or a zero revenue let through
ZeroActivityCheckNegativeOnly(summary) ==
    IF summary.kind # "dict" THEN "AttributeError"
    ELSE IF summary.record_count.kind \notin {"number", "bool"} THEN "TypeError"
    ELSE IF summary.record_count.num < 0 THEN "False"
    ELSE IF summary.total_revenue.kind \notin {"number", "bool"} THEN "TypeError"
    ELSE IF summary.total_revenue.num < 0 THEN "False"
    ELSE "pass"

\* summary.get("record_count", 0) <= 0 or summary.get("total_revenue", 0) <= 0
\* (line 29), the right operand evaluated only when the left is false
ZeroActivityCheck(summary) ==
    IF summary.kind # "dict" THEN "AttributeError"
    ELSE IF LeqZero(summary.record_count) = "TypeError" THEN "TypeError"
    ELSE IF LeqZero(summary.record_count) = "yes" THEN "False"
    ELSE IF LeqZero(summary.total_revenue) = "TypeError" THEN "TypeError"
    ELSE IF LeqZero(summary.total_revenue) = "yes" THEN "False"
    ELSE "pass"

validate_harmonized_schema(data) ==
    IF data.kind # "dict" THEN "False"
    ELSE IF ~(RequiredKeys \subseteq data.keys) THEN "False"
    ELSE IF SummaryKeysCheck(data.summary) # "pass" THEN SummaryKeysCheck(data.summary)
    ELSE IF ZeroActivityCheck(data.summary) # "pass" THEN ZeroActivityCheck(data.summary)
    ELSE "True"

ValidatorIdle == candidate = [kind |-> "null", keys |-> {}, device_id |-> "",
                              summary |-> AbsentSummary] /\ verdict = "idle"

ValidatorInit == candidate \in Candidates /\ verdict = "pending"

\* one call of validate_harmonized_schema
Validate ==
    /\ verdict = "pending"
    /\ verdict' = validate_harmonized_schema(candidate)
    /\ UNCHANGED candidate

(***************************************************************************)
(* NotificationFunction: main.                                             *)
(***************************************************************************)
PROCESSED_CONTAINER == "processed"

\* the url of the event; "" stands for an event without url
EventUrls ==
    {"",
     "https://cc2025.blob.core.windows.net/processed/latest/device-S-101.json",
     "https://cc2025.blob.core.windows.net/processed/latest/device-S-101.csv",
     "https://cc2025.blob.core.windows.net/processed/by-timestamp/19700101000001/device-S-101.json",
     "https://cc2025.blob.core.windows.net/processed/by-timestamp/latest/device-S-101.json",
     "https://cc2025.blob.core.windows.net/raw/latest/sales.json"}

\* what the store answers for the blob: nothing, bytes that are no JSON, or
\* the JSON text of a value
ProcessedBlobs ==
    {[state |-> st, data |-> [kind |-> "null", keys |-> {}, device_id |-> "",
                              summary |-> AbsentSummary]] : st \in {"missing", "not_json"}}
    \cup {[state |-> "json", data |-> c] : c \in Candidates}

NoPayload == [status_text |-> "", color |-> "", device |-> "", revenue |-> "", details |-> ""]

\* f"{revenue}"
RevenueText(v) ==
    CASE v.kind = "number" -> ToString(v.num)
      [] v.kind = "bool" -> "True"
      [] v.kind = "null" -> "None"
      [] OTHER -> "text"

NotificationIdle ==
    /\ url = "" /\ processed_blob = [state |-> "missing",
           data |-> [kind |-> "null", keys |-> {}, device_id |-> "", summary |-> AbsentSummary]]
    /\ nf_pc = "idle" /\ is_schema_valid = FALSE /\ error_detail = ""
    /\ device_id = "" /\ revenue = Absent /\ downloaded = "" /\ validated = "none"
    /\ teams_payload = NoPayload

NotificationInit ==
    /\ url \in EventUrls
    /\ processed_blob \in ProcessedBlobs
    /\ nf_pc = "start"
    /\ is_schema_valid = FALSE
    /\ error_detail = ""
    /\ device_id = ""
    /\ revenue = Absent
    /\ downloaded = ""
    /\ validated = "none"
    /\ teams_payload = NoPayload

\* the negation of the test of line 59
Eligible(u) == u # "" /\ Contains(u, "latest/") /\ EndsWith(u, ".json")

\* lines 48-61: the locals, then the filter on the url
NotifyFilter ==
    /\ nf_pc = "start"
    /\ is_schema_valid' = FALSE
    /\ device_id' = "N/A"
    /\ revenue' = [kind |-> "number", num |-> 0]
    /\ error_detail' = ""
    /\ nf_pc' = IF Eligible(url) THEN "process" ELSE "ignored"
    /\ UNCHANGED <<url, processed_blob, downloaded, validated, teams_payload>>

\* the try block of lines 63-96 as a record of what it leaves behind
TryBlock(u, setting, blob) ==
    LET blob_name == SplitLast(u, "/" \o PROCESSED_CONTAINER \o "/")
        before    == [is_schema_valid |-> FALSE, device_id |-> "N/A",
                      revenue |-> [kind |-> "number", num |-> 0],
                      downloaded |-> "", validated |-> "none", error_detail |-> ""]
        file_data == blob.data
        summary   == IF "summary" \in file_data.keys THEN file_data.summary
                     ELSE [kind |-> "dict", has |-> {}, record_count |-> Absent,
                           total_revenue |-> Absent]
        result    == validate_harmonized_schema(file_data)
    IN  IF setting = ""
        THEN \* line 65 raises ValueError
             [before EXCEPT !.error_detail =
                 "Configuration Error: AZURE_STORAGE_ACCOUNT_URL is not configured."]
        ELSE IF blob.state = "missing"
        THEN \* download_blob raises, caught at line 93
             [before EXCEPT !.downloaded = blob_name,
                 !.error_detail = "Critical Error (JSON/IO): The specified blob does not exist."]
        ELSE IF blob.state = "not_json"
        THEN \* json.loads raises JSONDecodeError, a ValueError, caught at line 83
             [before EXCEPT !.downloaded = blob_name,
                 !.error_detail = "Configuration Error: Expecting value: line 1 column 1 (char 0)"]
        ELSE IF file_data.kind # "dict"
        THEN \* line 78: file_data has no get
             [before EXCEPT !.downloaded = blob_name,
                 !.error_detail = "Critical Error (JSON/IO): object has no attribute 'get'"]
        ELSE LET got == [before EXCEPT !.downloaded = blob_name,
                            !.device_id = IF "device_id" \in file_data.keys
                                          THEN file_data.device_id ELSE "Unknown"]
             IN  IF summary.kind # "dict"
                 THEN \* line 79: the summary has no get
                      [got EXCEPT !.error_detail =
                          "Critical Error (JSON/IO): object has no attribute 'get'"]
                 ELSE LET read == [got EXCEPT !.revenue =
                                      IF "total_revenue" \in summary.has
                                      THEN summary.total_revenue
                                      ELSE [kind |-> "number", num |-> 0]]
                      IN  IF result \in {"True", "False"}
                          THEN [read EXCEPT !.validated = result,
                                            !.is_schema_valid = (result = "True")]
                          ELSE \* the validator raised, caught at line 93
                               [read EXCEPT !.validated = result,
                                   !.error_detail = "Critical Error (JSON/IO): " \o result]

\* lines 63-96
NotifyProcess ==
    /\ nf_pc = "process"
    /\ LET after == TryBlock(url, STORAGE_ACCOUNT_URL, processed_blob)
       IN  /\ is_schema_valid' = after.is_schema_valid
           /\ device_id' = after.device_id
           /\ revenue' = after.revenue
           /\ downloaded' = after.downloaded
           /\ validated' = after.validated
           /\ error_detail' = after.error_detail
    /\ nf_pc' = "report"
    /\ UNCHANGED <<url, processed_blob, teams_payload>>

\* details (lines 101-103)
Details(u, detail) ==
    IF detail # ""
    THEN "MOTIVO DA FALHA: " \o detail \o ". " \o "Caminho do Ficheiro: " \o u
    ELSE "Caminho do Ficheiro: " \o u

\* teams_payload (lines 98-122), without the time of generation
TeamsPayload(u, valid, dev, rev, detail) ==
    [status_text |-> IF valid THEN "SUCCESSFUL PROCESSING" ELSE "VALIDATION FAILED",
     color |-> IF valid THEN "00FF00" ELSE "FF0000",
     device |-> "Dispositivo " \o dev,
     revenue |-> RevenueText(rev) \o " (Apenas se valido)",
     details |-> Details(u, detail)]

\* lines 98-124: the payload is built and handed to send_teams_notification
NotifySend ==
    /\ nf_pc = "report"
    /\ teams_payload' = TeamsPayload(url, is_schema_valid, device_id, revenue, error_detail)
    /\ nf_pc' = "done"
    /\ UNCHANGED <<url, processed_blob, is_schema_valid, error_detail, device_id,
                   revenue, downloaded, validated>>

(***************************************************************************)
(* Specifications.                                                         *)
(***************************************************************************)
\* calls of process_and_harmonize_data
Init ==
    /\ HarmonizerInit /\ MainIdle /\ ValidatorIdle /\ NotificationIdle
    /\ STORAGE_ACCOUNT_URL = ""
Next ==
    \/ Harmonize /\ UNCHANGED <<mvars, vvars, nvars, STORAGE_ACCOUNT_URL>>
    \/ Rerun /\ UNCHANGED <<mvars, vvars, nvars, STORAGE_ACCOUNT_URL>>
Spec == Init /\ [][Next]_vars

\* the TransformETL http handler
InitMain ==
    /\ MainInit /\ HarmonizerIdle /\ ValidatorIdle /\ NotificationIdle
    /\ STORAGE_ACCOUNT_URL \in StorageSettings
NextMain ==
    \/ MainCheckConfig /\ UNCHANGED <<hvars, vvars, nvars, STORAGE_ACCOUNT_URL>>
    \/ MainInputSetup /\ UNCHANGED <<hvars, vvars, nvars, STORAGE_ACCOUNT_URL>>
    \/ MainWriteOutputs /\ UNCHANGED <<hvars, vvars, nvars, STORAGE_ACCOUNT_URL>>
SpecMain == InitMain /\ [][NextMain]_vars

\* calls of validate_harmonized_schema
InitValidate ==
    /\ ValidatorInit /\ HarmonizerIdle /\ MainIdle /\ NotificationIdle
    /\ STORAGE_ACCOUNT_URL = ""
NextValidate == Validate /\ UNCHANGED <<hvars, mvars, nvars, STORAGE_ACCOUNT_URL>>
SpecValidate == InitValidate /\ [][NextValidate]_vars

\* the NotificationFunction event handler
InitNotify ==
    /\ NotificationInit /\ HarmonizerIdle /\ MainIdle /\ ValidatorIdle
    /\ STORAGE_ACCOUNT_URL \in StorageSettings
NextNotify ==
    \/ NotifyFilter /\ UNCHANGED <<hvars, mvars, vvars, STORAGE_ACCOUNT_URL>>
    \/ NotifyProcess /\ UNCHANGED <<hvars, mvars, vvars, STORAGE_ACCOUNT_URL>>
    \/ NotifySend /\ UNCHANGED <<hvars, mvars, vvars, STORAGE_ACCOUNT_URL>>
SpecNotify == InitNotify /\ [][NextNotify]_vars

(***************************************************************************)
(* Properties.  The expected texts below are written out by hand for the   *)
(* inputs of the pools, independently of the operators above.              *)
(***************************************************************************)
\* YYYYMMDDhhmmss of each run timestamp of the pool
ExpectedFolder(ts) ==
    CASE ts = 1000 -> "19700101000001"
      [] ts = 1500 -> "19700101000001"
      [] ts = 61000 -> "19700101000101"
      [] ts = 90061001 -> "19700102010101"

\* position of each timestamp text of the pool in time, and its ISO-8601 form
InstantRank(text) ==
    CASE text = "2025-09-14T23:30:00Z" -> 0
      [] text = "2025-09-15T08:00:00+00:00" -> 1
      [] text = "2025-09-15T08:15:00+00:00" -> 2
      [] text = "2025-09-15T08:45:00+00:00" -> 3
ExpectedIso(text) ==
    IF text = "2025-09-14T23:30:00Z" THEN "2025-09-14T23:30:00+00:00" ELSE text

DevicesOf(csv) == {csv[i].device_id : i \in 1..Len(csv)}
RowsOfDevice(csv, d) == SelectSeq(csv, LAMBDA r : r.device_id = d)

\* C1: for every input with at least one row the call returns, for each
\* distinct device_id of the input, exactly one artifact named
\* latest/device-<id>.json and exactly one named
\* by-timestamp/<YYYYMMDDhhmmss of run_ts>/device-<id>.json, with the same
\* content, and no other artifact.
C1_TwoArtifactsPerDevice ==
    (h_status # "ready" /\ Len(csv_data) >= 1) =>
        LET devices   == DevicesOf(csv_data)
            idx       == 1..Len(output_blobs)
            latest(d) == "latest/device-" \o d \o ".json"
            hist(d)   == "by-timestamp/" \o ExpectedFolder(run_ts) \o "/device-" \o d \o ".json"
        IN  /\ h_status = "returned"
            /\ Len(output_blobs) = 2 * Cardinality(devices)
            /\ \A d \in devices :
                /\ Cardinality({i \in idx : output_blobs[i].path = latest(d)}) = 1
                /\ Cardinality({i \in idx : output_blobs[i].path = hist(d)}) = 1
                /\ \A i, j \in idx :
                      (output_blobs[i].path = latest(d) /\ output_blobs[j].path = hist(d))
                          => output_blobs[i].content = output_blobs[j].content
            /\ \A i \in idx : \E d \in devices : output_blobs[i].path \in {latest(d), hist(d)}

\* a call on the three rows of TEST_CSV_DATA returned its four artifacts
C1_Witness ==
    /\ h_status = "returned"
    /\ csv_data = TEST_CSV_DATA
    /\ Len(output_blobs) = 4

\* C2: a call on an input with the header row and no data row raises the
\* empty-input ValueError and returns no list.
C2_EmptyInputRaises ==
    (h_status # "ready" /\ Len(csv_data) = 0) => h_status = "raised"

\* C5: two runs whose run timestamps differ never give the same
\* by-timestamp name, so no later run overwrites a historical artifact.
C5_HistoryNamesDiffer ==
    \A a \in prev_run : \A b \in HistoryOf(run_ts, output_blobs) :
        a.run_ts # b.run_ts => a.path # b.path

\* C7: every harmonized record of one call carries the same time_window,
\* "<min>/<max>" over the timestamps of all rows of the batch.
C7_BatchTimeWindow ==
    h_status = "returned" =>
        \A k \in 1..Len(harmonized) :
            \E lo, hi \in 1..Len(csv_data) :
                /\ \A i \in 1..Len(csv_data) :
                      /\ InstantRank(csv_data[lo].timestamp) <= InstantRank(csv_data[i].timestamp)
                      /\ InstantRank(csv_data[i].timestamp) <= InstantRank(csv_data[hi].timestamp)
                /\ harmonized[k].time_window =
                      ExpectedIso(csv_data[lo].timestamp) \o "/" \o
                      ExpectedIso(csv_data[hi].timestamp)

\* two devices with disjoint ranges (S-101 ends 08:15, S-102 is 23:30 of the
\* day before), their rows not in time order, both records produced
C7_Witness ==
    /\ h_status = "returned"
    /\ csv_data = <<TestRow1, ExtraRow, TestRow2>>
    /\ Len(harmonized) = 2
    /\ harmonized[1].time_window = "2025-09-14T23:30:00+00:00/2025-09-15T08:15:00+00:00"
    /\ harmonized[2].time_window = harmonized[1].time_window

\* C8: in every harmonized record, records is the sequence of the input rows
\* of that device in their original order, record_count is its length and
\* total_items_sold the sum of its qty.
C8_RecordsOfDevice ==
    h_status = "returned" =>
        \A k \in 1..Len(harmonized) :
            LET h   == harmonized[k]
                src == RowsOfDevice(csv_data, h.device_id)
            IN  /\ Len(h.records) = Len(src)
                /\ \A i \in 1..Len(src) :
                      /\ h.records[i].timestamp = ExpectedIso(src[i].timestamp)
                      /\ h.records[i].item_id = src[i].item_id
                      /\ h.records[i].qty = src[i].qty
                      /\ h.records[i].unit_price = src[i].unit_price
                      /\ h.records[i].store = src[i].store
                /\ h.summary.record_count = Len(h.records)
                /\ h.summary.total_items_sold = SumQty(h.records)

\* a device with two rows and a device with a single row
C8_Witness ==
    /\ h_status = "returned"
    /\ csv_data = TEST_CSV_DATA
    /\ harmonized[1].summary.record_count = 2
    /\ harmonized[2].summary.record_count = 1

\* the four checks of the validator, as the claim states them
IsPositive(v) == v.kind \in {"number", "bool"} /\ v.num > 0
FourChecks(c) ==
    /\ c.kind = "dict"
    /\ RequiredKeys \subseteq c.keys
    /\ c.summary.kind = "dict" /\ SummaryKeys \subseteq c.summary.has
    /\ IsPositive(c.summary.record_count) /\ IsPositive(c.summary.total_revenue)

C4_NeverRaises == verdict # "pending" => verdict \in {"True", "False"}

\* the name of the artifact an event is about: the text after /processed/
ArtifactName(u) == SplitLast(u, "/processed/")

\* C6: an event whose artifact name does not begin with latest/ and end with
\* .json is dropped: no download, no validation, no notification.
C6_OnlyLatestJsonProcessed ==
    ~(StartsWith(ArtifactName(url), "latest/") /\ EndsWith(ArtifactName(url), ".json")) =>
        /\ nf_pc \in {"start", "ignored"}
        /\ downloaded = ""
        /\ validated = "none"
        /\ teams_payload = NoPayload

\* C9: when the validator returned False for the artifact, the payload has
\* the status VALIDATION FAILED and carries the reason of the failure.
C9_FailureReasonReported ==
    (nf_pc = "done" /\ validated = "False") =>
        /\ teams_payload.status_text = "VALIDATION FAILED"
        /\ Contains(teams_payload.details, "MOTIVO DA FALHA")

\* C10: with the setting present, a fileName given and the input obtained,
\* main harmonizes the input, uploads the two artifacts of every device and
\* answers 200 with their number.
C10_MainSucceeds ==
    ( /\ etl_pc = "done" /\ STORAGE_ACCOUNT_URL # ""
      /\ req_body.json /\ req_body.fileName # ""
      /\ (req_body.fileName = "TEST_RUN" \/ raw_blob.exists) ) =>
        LET input == IF req_body.fileName = "TEST_RUN" THEN TEST_CSV_DATA ELSE raw_blob.rows
            n     == 2 * Cardinality(DevicesOf(input))
        IN  /\ response.status_code = 200
            /\ Cardinality(uploaded) = n
            /\ response.body = "Processed " \o ToString(n) \o " output blobs successfully."

====
